---- MODULE Spec2Model ----
(***************************************************************************)
(* Smart-PDF-Chatbot: the Express backend (src/backend/server.js) and the  *)
(* multi-document React client (src/unnamed/part_000, lines 1-472).        *)
(*                                                                         *)
(* A JavaScript string is a sequence of tokens.  Document texts,           *)
(* separators, questions and file names are spelled character by           *)
(* character; a fixed literal of the program (an error message, a piece of *)
(* a prompt template, a piece of markup) is one token.                     *)
(***************************************************************************)
EXTENDS Integers, Sequences, FiniteSets, TLC

VARIABLES
  now,               \* the reading of Date.now()
  reqs,              \* HTTP requests: id -> request record (server-side position included)
  uploadsDir,        \* backend/uploads: saved name -> bytes
  dashboards,        \* ../dashboards: file name -> html
  selectedFiles,     \* client state (useState), part_000 lines 6-15
  allPdfData,
  summary,
  loading,
  error,
  chatMessages,
  currentQuestion,
  comparisonResult,
  comparing,
  changes            \* file selections made so far

serverVars == <<now, reqs, uploadsDir, dashboards>>
clientVars == <<selectedFiles, allPdfData, summary, loading, error, chatMessages,
                currentQuestion, comparisonResult, comparing, changes>>
vars == <<now, reqs, uploadsDir, dashboards, selectedFiles, allPdfData,
          summary, loading, error, chatMessages, currentQuestion, comparisonResult,
          comparing, changes>>

(***************************************************************************)
(* Bounds of the model.                                                    *)
(***************************************************************************)
\* readings of Date.now() in one run
MaxClock == 2
\* requests the client sends in one run
MaxReq == 3
\* requests posted straight to /upload in one run
MaxUploads == 1
\* requests posted straight to /ask and /compare-html in one run
MaxPosts == 2
\* file selections the user makes in one run
MaxChanges == 2
\* files of a batch posted straight to /upload
MaxBatch == 2

(***************************************************************************)
(* JavaScript values.                                                      *)
(***************************************************************************)
Undefined == <<"<undefined>">>            \* the value undefined, kept apart from every string
EmptyObject == [x \in {} |-> x]           \* {}

Truthy(s) == s # Undefined /\ s # <<>>    \* !!s for a string or undefined

\* obj.field, undefined when the property is absent
Field(obj, f) == IF f \in DOMAIN obj THEN obj[f] ELSE Undefined

\* `${s}`: undefined prints as the nine letters
TemplateStr(s) == IF s = Undefined THEN <<"u","n","d","e","f","i","n","e","d">> ELSE s

\* what Array.prototype.join writes for one element: undefined gives ""
JoinStr(s) == IF s = Undefined THEN <<>> ELSE s

RECURSIVE Join(_, _)
\* Array.prototype.join(sep) over a sequence of strings
Join(strs, sep) ==
  IF Len(strs) = 0 THEN <<>>
  ELSE IF Len(strs) = 1 THEN JoinStr(strs[1])
  ELSE JoinStr(strs[1]) \o sep \o Join(Tail(strs), sep)

Digit(d) == <<"0","1","2","3","4","5","6","7","8","9">>[d + 1]

RECURSIVE NumStr(_)
\* String(n) for n >= 0
NumStr(n) == IF n < 10 THEN <<Digit(n)>> ELSE NumStr(n \div 10) \o <<Digit(n % 10)>>

Whitespace == {" ", "\n", "\t"}

RECURSIVE TrimStart(_)
TrimStart(s) == IF s # <<>> /\ Head(s) \in Whitespace THEN TrimStart(Tail(s)) ELSE s

RECURSIVE TrimEnd(_)
TrimEnd(s) ==
  IF s # <<>> /\ s[Len(s)] \in Whitespace THEN TrimEnd(SubSeq(s, 1, Len(s) - 1)) ELSE s

\* String.prototype.trim
Trim(s) == TrimEnd(TrimStart(s))

IsPrefix(s, t) == Len(s) <= Len(t) /\ SubSeq(t, 1, Len(s)) = s

\* the positions of s that hold the token c
Positions(s, c) == {i \in 1..Len(s) : s[i] = c}

Max(S) == CHOOSE x \in S : \A y \in S : y <= x

\* path.extname: from the last "." of the name, "" when there is none or when
\* the only one is the first character
ExtName(name) ==
  LET dots == Positions(name, ".")
  IN IF dots = {} \/ Max(dots) = 1 THEN <<>> ELSE SubSeq(name, Max(dots), Len(name))

(***************************************************************************)
(* The files a user can pick.  The bytes of a file are opaque; pdf-parse   *)
(* either returns the text of the document or throws.                      *)
(***************************************************************************)
FileA == [name |-> <<"a", ".", "p", "d", "f">>, bytes |-> "good"]
FileB == [name |-> <<"b", ".", "t", "x", "t">>, bytes |-> "corrupt"]
FileC == [name |-> <<"c", ".", "p", "d", "f">>, bytes |-> "blank"]
Files == {FileA, FileB, FileC}

\* pdfParse(dataBuffer): [ok, text] of the document, or [~ok, message] thrown
pdfParse(bytes) ==
  CASE bytes = "good"  -> [ok |-> TRUE, text |-> <<"x">>]
    [] bytes = "blank" -> [ok |-> TRUE, text |-> <<>>]
    [] OTHER           -> [ok |-> FALSE, text |-> <<"Invalid PDF structure">>]

(***************************************************************************)
(* HTTP requests and responses.                                            *)
(***************************************************************************)
NoResp == [status |-> 0, body |-> EmptyObject]
NoReply == [kind |-> "none", text |-> Undefined]

\* a request as it reaches the server; origin names the client handler that
\* awaits the response ("direct" when no handler of this client does), ctx is
\* what that handler keeps across the await, response what axios.post gave
NewReq(endpoint, origin, body, ctx) ==
  [endpoint |-> endpoint, origin |-> origin, body |-> body, ctx |-> ctx,
   pc |-> "recv", files |-> <<>>, processedPdfs |-> <<>>, comparisonText |-> <<>>,
   uniqueFileName |-> <<>>, llm |-> <<>>, response |-> NoReply, resp |-> NoResp]

Responded(r) == r.pc = "done"
ResponseOk(r) == r.resp.status \in 200..299          \* response.ok

NextId == Cardinality(DOMAIN reqs) + 1
Send(r) == reqs' = [i \in DOMAIN reqs \cup {NextId} |-> IF i = NextId THEN r ELSE reqs[i]]
Update(id, r) == reqs' = [reqs EXCEPT ![id] = r]
Respond(id, r, status, body) ==
  Update(id, [r EXCEPT !.pc = "done", !.resp = [status |-> status, body |-> body]])

(***************************************************************************)
(* The clock.                                                              *)
(***************************************************************************)
\* a request is about to read the clock: readings taken while none is are
\* indistinguishable from readings taken just before the next one
ClockRead(r) ==
  \/ r.endpoint = "/upload" /\ r.pc = "recv"
  \/ r.endpoint = "/compare-html" /\ r.pc = "mkdir"

Tick ==
  /\ now < MaxClock
  /\ \E id \in DOMAIN reqs : ClockRead(reqs[id])
  /\ now' = now + 1
  /\ UNCHANGED <<reqs, uploadsDir, dashboards>>
  /\ UNCHANGED clientVars

(***************************************************************************)
(* POST /upload, server.js lines 26-78.                                    *)
(***************************************************************************)
\* an upload that would take ten times as many files
UploadLimitTenfold == 10 * 10

UploadLimit == 10    \* multer(...).array('pdfs', 10)

\* storage.filename: Date.now() + path.extname(file.originalname)
StorageFilename(t, file) == NumStr(t) \o ExtName(file.name)

\* path.join(__dirname, 'uploads', file.filename)
UploadPath(filename) == <<"__dirname/uploads/">> \o filename

\* multer stores the next file of the batch under the name storage.filename
\* gives it at this clock reading; after the last one the handler starts
UploadStoreFile(id) ==
  /\ id \in DOMAIN reqs
  /\ LET r == reqs[id]
         k == Len(r.files) + 1
     IN /\ r.endpoint = "/upload" /\ r.pc = "recv"
        /\ k <= Len(r.body.pdfs) /\ k <= UploadLimit
        /\ LET file == r.body.pdfs[k]
               filename == StorageFilename(now, file)
               stored == Append(r.files, [originalname |-> file.name, filename |-> filename])
           IN /\ uploadsDir' = [n \in DOMAIN uploadsDir \cup {filename} |->
                                  IF n = filename THEN file.bytes ELSE uploadsDir[n]]
              /\ Update(id, [r EXCEPT !.files = stored,
                                      !.pc = IF k = Len(r.body.pdfs) THEN "extract" ELSE "recv"])
  /\ UNCHANGED <<now, dashboards>>
  /\ UNCHANGED clientVars

\* upload(req, res, cb) calls back with an error: a MulterError (always so for
\* a file past the limit) or any other error of the upload.  multer removes
\* the files of the request it has stored so far; here it fails on the first
\* file or on the one past the limit
UploadError(id, multerError) ==
  /\ id \in DOMAIN reqs
  /\ LET r == reqs[id]
         mine == {r.files[i].filename : i \in 1..Len(r.files)}
     IN /\ r.endpoint = "/upload" /\ r.pc = "recv"
        /\ Len(r.files) < Len(r.body.pdfs)
        /\ Len(r.files) = 0 \/ Len(r.files) >= UploadLimit
        /\ Len(r.files) >= UploadLimit => multerError
        /\ uploadsDir' = [n \in DOMAIN uploadsDir \ mine |-> uploadsDir[n]]
        /\ Respond(id, [r EXCEPT !.files = <<>>], 500,
             [error |-> IF multerError THEN <<"Multer error: ", "Unexpected field">>
                        ELSE <<"Unknown upload error: ", "write failed">>])
  /\ UNCHANGED <<now, dashboards>>
  /\ UNCHANGED clientVars

\* !req.files || req.files.length === 0
UploadNoFiles(id) ==
  /\ id \in DOMAIN reqs
  /\ LET r == reqs[id]
     IN /\ r.endpoint = "/upload" /\ r.pc = "recv"
        /\ Len(r.body.pdfs) = 0
        /\ Respond(id, r, 400, [error |-> <<"No files uploaded">>])
  /\ UNCHANGED <<now, uploadsDir, dashboards>>
  /\ UNCHANGED clientVars

\* the record the try block pushes
SuccessRecord(file, filePath, pdfData) ==
  [filename |-> file.originalname, savedname |-> file.filename,
   tempPath |-> filePath, text |-> pdfData.text]

\* a catch block that would also keep a text in the record
FailureRecordWithText(file, parseError) ==
  [filename |-> file.originalname, text |-> <<>>,
   error |-> <<"Failed to extract text: ">> \o parseError.text]

\* the record the catch block pushes
FailureRecord(file, parseError) ==
  [filename |-> file.originalname,
   error |-> <<"Failed to extract text: ">> \o parseError.text]

\* one turn of the loop over req.files: read the stored file, parse it, push
ProcessFile(file, dir) ==
  LET filePath == UploadPath(file.filename)
      pdfData == pdfParse(dir[file.filename])
  IN IF pdfData.ok THEN SuccessRecord(file, filePath, pdfData)
     ELSE FailureRecord(file, pdfData)

\* a loop that would stop after its first turn
ProcessFirstFile(files, dir) ==
  IF files = <<>> THEN <<>> ELSE <<ProcessFile(Head(files), dir)>>

RECURSIVE ProcessFiles(_, _)
\* the loop over req.files, lines 47-70
ProcessFiles(files, dir) ==
  IF files = <<>> THEN <<>>
  ELSE <<ProcessFile(Head(files), dir)>> \o ProcessFiles(Tail(files), dir)

HasError(pdf) == Truthy(Field(pdf, "error"))

\* processedPdfs.every(pdf => pdf.error)
AllFailed(pdfs) == \A i \in 1..Len(pdfs) : HasError(pdfs[i])

\* a handler without the batch-level failure of lines 72-74
UploadResponseNoBatchFailure(processedPdfs) == [status |-> 200, body |-> processedPdfs]

\* the response after the loop, lines 72-76
UploadResponse(processedPdfs) ==
  IF AllFailed(processedPdfs)
  THEN [status |-> 500,
        body |-> [error |-> <<"All PDFs failed to process.">>, details |-> processedPdfs]]
  ELSE [status |-> 200, body |-> processedPdfs]

\* the handler proper: the loop over the stored files, then the response
UploadRespond(id) ==
  /\ id \in DOMAIN reqs
  /\ LET r == reqs[id]
         processedPdfs == ProcessFiles(r.files, uploadsDir)
         out == UploadResponse(processedPdfs)
     IN /\ r.endpoint = "/upload" /\ r.pc = "extract"
        /\ Respond(id, [r EXCEPT !.processedPdfs = processedPdfs], out.status, out.body)
  /\ UNCHANGED <<now, uploadsDir, dashboards>>
  /\ UNCHANGED clientVars

(***************************************************************************)
(* The language-model endpoint: axios.post either throws (transport        *)
(* failure, non-2xx status) or gives response.data.                        *)
(***************************************************************************)
Payload(text) == [candidates |-> <<[content |-> [parts |-> <<[text |-> text]>>]]>>]

LlmReplies ==
  << [ok |-> FALSE, data |-> EmptyObject],
     [ok |-> TRUE, data |-> Payload(<<"*", "y", "\n">>)],     \* an answer in Markdown
     [ok |-> TRUE, data |-> EmptyObject],
     [ok |-> TRUE, data |-> [candidates |-> <<>>]] >>

\* response.data.candidates?.[0]?.content?.parts?.[0]?.text
FirstCandidateText(data) ==
  IF "candidates" \notin DOMAIN data THEN Undefined
  ELSE IF Len(data.candidates) = 0 THEN Undefined
  ELSE LET c == data.candidates[1]
       IN IF "content" \notin DOMAIN c THEN Undefined
          ELSE IF "parts" \notin DOMAIN c.content THEN Undefined
          ELSE IF Len(c.content.parts) = 0 THEN Undefined
          ELSE Field(c.content.parts[1], "text")

\* a handler that would post the prompt again after the first call
CallLlmTwice(r, prompt) == [r EXCEPT !.pc = "llm", !.llm = @ \o <<prompt, prompt>>]

\* axios.post(url, { contents: [{ parts: [{ text: prompt }] }] }): the request
\* records the prompts it has posted to the endpoint
CallLlm(r, prompt) == [r EXCEPT !.pc = "llm", !.llm = Append(@, prompt)]

(***************************************************************************)
(* POST /ask, server.js lines 81-107.                                      *)
(***************************************************************************)
\* !question || !pdfText
AskMissingInput(body) ==
  ~Truthy(Field(body, "question")) \/ ~Truthy(Field(body, "pdfText"))

AskPrompt(question, pdfText) ==
  <<"Here is the PDF content:", "\n", "\n">> \o pdfText
    \o <<"\n", "\n", "Now answer this question:", "\n">> \o question

\* a handler that would strip the emphasis markers of the answer
AskSuccessBodyStripped(answer) ==
  IF answer = Undefined THEN EmptyObject
  ELSE [answer |-> SelectSeq(answer, LAMBDA c : c # "*")]

\* res.json({ answer }): JSON leaves out a property whose value is undefined
AskSuccessBody(answer) == IF answer = Undefined THEN EmptyObject ELSE [answer |-> answer]

\* the handler up to the await of axios.post
AskReceive(id) ==
  /\ id \in DOMAIN reqs
  /\ LET r == reqs[id]
     IN /\ r.endpoint = "/ask" /\ r.pc = "recv"
        /\ IF AskMissingInput(r.body)
           THEN Respond(id, r, 400, [error |-> <<"Missing question or PDF text">>])
           ELSE Update(id, CallLlm(r, AskPrompt(r.body.question, r.body.pdfText)))
  /\ UNCHANGED <<now, uploadsDir, dashboards>>
  /\ UNCHANGED clientVars

\* the response of /ask once axios.post has settled, lines 101-106
AskResponse(reply) ==
  IF reply.ok
  THEN [status |-> 200, body |-> AskSuccessBody(FirstCandidateText(reply.data))]
  ELSE [status |-> 500, body |-> [error |-> <<"Failed to get answer from Gemini">>]]

AskReply(id, reply) ==
  /\ id \in DOMAIN reqs
  /\ LET r == reqs[id]
         out == AskResponse(reply)
     IN /\ r.endpoint = "/ask" /\ r.pc = "llm"
        /\ Respond(id, [r EXCEPT !.response = reply], out.status, out.body)
  /\ UNCHANGED <<now, uploadsDir, dashboards>>
  /\ UNCHANGED clientVars

(***************************************************************************)
(* The comparison postprocessor, server.js lines 134-157.                  *)
(***************************************************************************)
BR == "<br/>"
SimilaritiesOpen == "<h2 class=\"section-title similarities-title\">"
DifferencesOpen == "<h2 class=\"section-title differences-title\">"
H2Close == "</h2>"
BulletSpan == "<span class=\"list-item-bullet\">&bull;</span> <span class=\"list-item-text\">"
NumberOpen == "<span class=\"list-item-number\">"
NumberToText == "</span> <span class=\"list-item-text\">"
SpanClose == "</span>"
DigitTokens == {"0", "1", "2", "3", "4", "5", "6", "7", "8", "9"}
RegexSpace == {" ", "\t", "\n"}          \* \s

\* response...text || 'No comparison result available.'
ComparisonTextOf(data) ==
  LET text == FirstCandidateText(data)
  IN IF Truthy(text) THEN text ELSE <<"No comparison result available.">>

\* .replace(/\*/g, '')
StripAsterisks(s) == SelectSeq(s, LAMBDA c : c # "*")

\* a conversion that would drop the line breaks
NewlinesDropped(s) == SelectSeq(s, LAMBDA c : c # "\n")

\* .replace(/\n/g, '<br/>')
NewlinesToBr(s) == [i \in 1..Len(s) |-> IF s[i] = "\n" THEN BR ELSE s[i]]

RECURSIVE WrapHeader(_, _, _)
\* .replace(/Similarities:/g, '<h2 class="...">Similarities:</h2>'), likewise Differences:
WrapHeader(s, phrase, open) ==
  IF s = <<>> THEN <<>>
  ELSE IF Head(s) = phrase THEN <<open, phrase, H2Close>> \o WrapHeader(Tail(s), phrase, open)
  ELSE <<Head(s)>> \o WrapHeader(Tail(s), phrase, open)

RECURSIVE SkipSpaces(_, _)
\* (\s*) from position j: the position after the run
SkipSpaces(s, j) == IF j <= Len(s) /\ s[j] \in RegexSpace THEN SkipSpaces(s, j + 1) ELSE j

RECURSIVE SkipDigits(_, _)
\* [0-9]* from position j: the position after the run
SkipDigits(s, j) == IF j <= Len(s) /\ s[j] \in DigitTokens THEN SkipDigits(s, j + 1) ELSE j

RECURSIVE LineEnd(_, _)
\* (.+?)(?=<br\/>|$) from position e: the last position of the shortest
\* non-empty run that is followed by <br/> or by the end of the text
LineEnd(s, e) == IF e >= Len(s) \/ s[e + 1] = BR THEN e ELSE LineEnd(s, e + 1)

\* "- " then at least one more character, at position j
BulletAt(s, j) == j + 2 <= Len(s) /\ s[j] = "-" /\ s[j + 1] = " "

\* "<digits>. " then at least one more character, at position j
NumberAt(s, j) ==
  LET d == SkipDigits(s, j)
  IN d > j /\ d + 2 <= Len(s) /\ s[d] = "." /\ s[d + 1] = " "

\* the same replacement with a greedy (.+): the first item runs to the end
BulletsToEndOfText(s, i) ==
  LET items == {p \in i..Len(s) : s[p] = BR /\ BulletAt(s, SkipSpaces(s, p + 1))}
  IN IF items = {} THEN SubSeq(s, i, Len(s))
     ELSE LET p == CHOOSE q \in items : \A o \in items : q <= o
              j == SkipSpaces(s, p + 1)
          IN SubSeq(s, i, p - 1) \o <<BR, BulletSpan>> \o SubSeq(s, j + 2, Len(s))
               \o <<SpanClose>>

RECURSIVE BulletsAfterBr(_, _)
\* line 150: .replace(/<br\/>(\s*)- (.+?)(?=<br\/>|$)/g, '<br/><span ...>$2</span>'), from position i
BulletsAfterBr(s, i) ==
  IF i > Len(s) THEN <<>>
  ELSE LET j == SkipSpaces(s, i + 1)
       IN IF s[i] = BR /\ BulletAt(s, j)
          THEN LET e == LineEnd(s, j + 2)
               IN <<BR, BulletSpan>> \o SubSeq(s, j + 2, e) \o <<SpanClose>>
                    \o BulletsAfterBr(s, e + 1)
          ELSE <<s[i]>> \o BulletsAfterBr(s, i + 1)

RECURSIVE NumbersAfterBr(_, _)
\* line 151: .replace(/<br\/>(\s*)([0-9]+\.) (.+?)(?=<br\/>|$)/g, '<br/><span ...>$1$2</span> <span ...>$3</span>')
NumbersAfterBr(s, i) ==
  IF i > Len(s) THEN <<>>
  ELSE LET j == SkipSpaces(s, i + 1)
           d == SkipDigits(s, j)
       IN IF s[i] = BR /\ NumberAt(s, j)
          THEN LET e == LineEnd(s, d + 2)
               IN <<BR, NumberOpen>> \o SubSeq(s, i + 1, d) \o <<NumberToText>>
                    \o SubSeq(s, d + 2, e) \o <<SpanClose>> \o NumbersAfterBr(s, e + 1)
          ELSE <<s[i]>> \o NumbersAfterBr(s, i + 1)

\* line 153: .replace(/^(- (.+?)(?=<br\/>|$))/g, ...): the first line only
FirstLineBullet(s) ==
  IF BulletAt(s, 1)
  THEN LET e == LineEnd(s, 3)
       IN <<BulletSpan>> \o SubSeq(s, 3, e) \o <<SpanClose>> \o SubSeq(s, e + 1, Len(s))
  ELSE s

\* line 154: .replace(/^([0-9]+\.) (.+?)(?=<br\/>|$)/g, ...): the first line only
FirstLineNumber(s) ==
  IF NumberAt(s, 1)
  THEN LET d == SkipDigits(s, 1)
           e == LineEnd(s, d + 2)
       IN <<NumberOpen>> \o SubSeq(s, 1, d) \o <<NumberToText>> \o SubSeq(s, d + 2, e)
            \o <<SpanClose>> \o SubSeq(s, e + 1, Len(s))
  ELSE s

\* the same transforms with the asterisks stripped last
PostprocessStripLast(text) ==
  LET t2 == NewlinesToBr(text)
      t3 == WrapHeader(t2, "Similarities:", SimilaritiesOpen)
      t4 == WrapHeader(t3, "Differences:", DifferencesOpen)
      t5 == BulletsAfterBr(t4, 1)
      t6 == NumbersAfterBr(t5, 1)
      t7 == FirstLineBullet(t6)
  IN StripAsterisks(FirstLineNumber(t7))

\* lines 138-154, in the order of the source
Postprocess(text) ==
  LET t1 == StripAsterisks(text)
      t2 == NewlinesToBr(t1)
      t3 == WrapHeader(t2, "Similarities:", SimilaritiesOpen)
      t4 == WrapHeader(t3, "Differences:", DifferencesOpen)
      t5 == BulletsAfterBr(t4, 1)
      t6 == NumbersAfterBr(t5, 1)
      t7 == FirstLineBullet(t6)
  IN FirstLineNumber(t7)

\* the page around the fragment, lines 161-258
HtmlContent(contentToWrap) ==
  <<"<!DOCTYPE html>...<div class=\"main-content\">">> \o contentToWrap
    \o <<"</div>...</html>">>

(***************************************************************************)
(* POST /compare-html, server.js lines 116-274.                            *)
(***************************************************************************)
CompareFailed == [error |-> <<"Failed to generate comparison HTML from Gemini">>]

\* `comparison_${Date.now()}.html`
UniqueFileName(t) == <<"comparison_">> \o NumStr(t) \o <<".html">>

\* `/dashboards/${uniqueFileName}`
ComparisonUrl(fileName) == <<"/dashboards/">> \o fileName

\* the handler up to the await of axios.post
CompareHtmlReceive(id) ==
  /\ id \in DOMAIN reqs
  /\ LET r == reqs[id]
     IN /\ r.endpoint = "/compare-html" /\ r.pc = "recv"
        /\ IF ~Truthy(Field(r.body, "prompt"))
           THEN Respond(id, r, 400, [error |-> <<"Missing comparison prompt">>])
           ELSE Update(id, CallLlm(r, r.body.prompt))
  /\ UNCHANGED <<now, uploadsDir, dashboards>>
  /\ UNCHANGED clientVars

\* axios.post has settled: the catch block, or the page is built and
\* fs.mkdir is awaited
CompareHtmlReply(id, reply) ==
  /\ id \in DOMAIN reqs
  /\ LET r == reqs[id]
     IN /\ r.endpoint = "/compare-html" /\ r.pc = "llm"
        /\ IF reply.ok
           THEN Update(id, [r EXCEPT !.pc = "mkdir", !.response = reply,
                  !.comparisonText = Postprocess(ComparisonTextOf(reply.data))])
           ELSE Respond(id, [r EXCEPT !.response = reply], 500, CompareFailed)
  /\ UNCHANGED <<now, uploadsDir, dashboards>>
  /\ UNCHANGED clientVars

\* fs.mkdir has settled: the catch block, or the file name is taken from the
\* clock and fs.writeFile is awaited
CompareHtmlMkdir(id, ok) ==
  /\ id \in DOMAIN reqs
  /\ LET r == reqs[id]
     IN /\ r.endpoint = "/compare-html" /\ r.pc = "mkdir"
        /\ IF ok
           THEN Update(id, [r EXCEPT !.pc = "write", !.uniqueFileName = UniqueFileName(now)])
           ELSE Respond(id, r, 500, CompareFailed)
  /\ UNCHANGED <<now, uploadsDir, dashboards>>
  /\ UNCHANGED clientVars

\* a handler that would send the reference whatever fs.writeFile did
CompareHtmlResponseUnchecked(r, ok) ==
  [status |-> 200, body |-> [comparisonUrl |-> ComparisonUrl(r.uniqueFileName)]]

\* the response once fs.writeFile has settled, lines 265-273
CompareHtmlResponse(r, ok) ==
  IF ok THEN [status |-> 200, body |-> [comparisonUrl |-> ComparisonUrl(r.uniqueFileName)]]
  ELSE [status |-> 500, body |-> CompareFailed]

\* fs.writeFile has settled: the file is there and the reference is sent, or
\* the catch block
CompareHtmlWrite(id, ok) ==
  /\ id \in DOMAIN reqs
  /\ LET r == reqs[id]
         out == CompareHtmlResponse(r, ok)
     IN /\ r.endpoint = "/compare-html" /\ r.pc = "write"
        /\ dashboards' =
             IF ok
             THEN [n \in DOMAIN dashboards \cup {r.uniqueFileName} |->
                     IF n = r.uniqueFileName
                     THEN [html |-> HtmlContent(r.comparisonText), by |-> id]
                     ELSE dashboards[n]]
             ELSE dashboards
        /\ Respond(id, r, out.status, out.body)
  /\ UNCHANGED <<now, uploadsDir>>
  /\ UNCHANGED clientVars

(***************************************************************************)
(* POST /compare, server.js lines 111-113.                                 *)
(***************************************************************************)
CompareDeprecated(id) ==
  /\ id \in DOMAIN reqs
  /\ LET r == reqs[id]
     IN /\ r.endpoint = "/compare" /\ r.pc = "recv"
        /\ Respond(id, r, 404,
             [error |-> <<"This endpoint is deprecated. Use /compare-html instead.">>])
  /\ UNCHANGED <<now, uploadsDir, dashboards>>
  /\ UNCHANGED clientVars

(***************************************************************************)
(* The client, part_000 lines 4-272.  A handler runs to its await in one   *)
(* step and resumes in one step when the fetch settles.                    *)
(***************************************************************************)
Separator == <<"\n", "\n", "-", "-", "-", "\n", "\n">>       \* '\n\n---\n\n'

Texts(pdfs) == [i \in 1..Len(pdfs) |-> Field(pdfs[i], "text")]        \* .map(pdf => pdf.text)
Filenames(pdfs) == [i \in 1..Len(pdfs) |-> Field(pdfs[i], "filename")]

\* a materialization that would take the text of the first record only
FirstTextOnly(pdfs) == IF Len(pdfs) = 0 THEN <<>> ELSE Join(<<Texts(pdfs)[1]>>, Separator)

\* data.map(pdf => pdf.text).join('\n\n---\n\n'), lines 72 and 141
CombinedText(pdfs) == Join(Texts(pdfs), Separator)

\* the fetch of a client handler fails before the server handles the request
NetworkError(id) ==
  /\ id \in DOMAIN reqs
  /\ reqs[id].origin # "direct" /\ reqs[id].pc = "recv" /\ reqs[id].files = <<>>
  /\ Update(id, [reqs[id] EXCEPT !.pc = "failed"])
  /\ UNCHANGED <<now, uploadsDir, dashboards>>
  /\ UNCHANGED clientVars

\* a fetch that would settle only with a response
SettledByResponse(r) == r.pc = "done"

\* the fetch has settled: it has resolved with a response or rejected
Settled(r) == r.pc \in {"done", "failed"}

\* a handler that would show no message for the error
NoErrorMessage(r, fallback) == <<>>

\* the message of the error thrown after the await: fetch's own, or
\* errData.error || fallback
ErrorMessage(r, fallback) ==
  IF r.pc = "failed" THEN <<"Failed to fetch">>
  ELSE IF Truthy(Field(r.resp.body, "error")) THEN r.resp.body.error
  ELSE fallback

\* the handler is over: nothing of the request is kept
Close(id) ==
  reqs' = [reqs EXCEPT ![id] = [NewReq(reqs[id].endpoint, reqs[id].origin, EmptyObject, EmptyObject)
                                  EXCEPT !.pc = "closed"]]

\* the handler is over and the request it should send is dropped
CloseWithoutSending(id, r) == Close(id)

\* the handler is over and another request is sent
CloseAndSend(id, r) ==
  reqs' = [i \in DOMAIN reqs \cup {NextId} |->
             IF i = NextId THEN r
             ELSE IF i = id THEN [NewReq(reqs[id].endpoint, reqs[id].origin, EmptyObject, EmptyObject)
                                    EXCEPT !.pc = "closed"]
             ELSE reqs[i]]

\* handleFileChange, lines 28-39
HandleFileChange(newFiles) ==
  /\ changes < MaxChanges
  /\ changes' = changes + 1
  /\ selectedFiles' = selectedFiles \o newFiles
  /\ allPdfData' = <<>>
  /\ summary' = <<>>
  /\ chatMessages' = <<>>
  /\ error' = <<>>
  /\ comparisonResult' = <<>>
  /\ UNCHANGED <<loading, currentQuestion, comparing>>
  /\ UNCHANGED serverVars

\* handleUploadPDFs up to the await of fetch, lines 42-60; the button that
\* calls it is disabled by line 312
HandleUploadPDFs ==
  /\ ~(loading \/ Len(selectedFiles) = 0)
  /\ IF Len(selectedFiles) = 0
     THEN /\ error' = <<"Please select at least one PDF file first.">>
          /\ UNCHANGED <<loading, reqs>>
     ELSE /\ NextId <= MaxReq
          /\ loading' = TRUE
          /\ error' = <<>>
          /\ Send(NewReq("/upload", "upload", [pdfs |-> selectedFiles], EmptyObject))
  /\ UNCHANGED <<selectedFiles, allPdfData, summary, chatMessages, currentQuestion,
                 comparisonResult, comparing, changes>>
  /\ UNCHANGED <<now, uploadsDir, dashboards>>

SummarizeQuestion == <<"Summarize the following document(s) concisely:">>

\* the greeting of line 77
Greeting(data) ==
  [sender |-> "bot",
   text |-> <<"PDF(s) uploaded and processed: ">> \o Join(Filenames(data), <<",", " ">>)
              \o <<". How can I help you with these documents?">>]

\* handleUploadPDFs from the settled fetch on, lines 62-85, with
\* handleSummarize up to its own await, lines 89-108
UploadSettled(id) ==
  /\ id \in DOMAIN reqs
  /\ LET r == reqs[id]
         data == r.resp.body
         combinedText == CombinedText(data)
     IN /\ r.origin = "upload" /\ Settled(r)
        /\ IF r.pc = "failed" \/ ~ResponseOk(r)
           THEN /\ error' = ErrorMessage(r, <<"Failed to upload PDFs">>)
                /\ loading' = FALSE
                /\ selectedFiles' = <<>>
                /\ Close(id)
                /\ UNCHANGED <<allPdfData, chatMessages>>
           ELSE IF ~Truthy(combinedText)
           THEN /\ allPdfData' = data
                /\ error' = <<"No PDF text to summarize.">>
                /\ chatMessages' = <<Greeting(data)>>
                /\ loading' = FALSE
                /\ selectedFiles' = <<>>
                /\ Close(id)
           ELSE /\ NextId <= MaxReq
                /\ allPdfData' = data
                /\ loading' = TRUE
                /\ error' = <<>>
                /\ CloseAndSend(id, NewReq("/ask", "summarize",
                     [question |-> SummarizeQuestion, pdfText |-> combinedText],
                     [data |-> data]))
                /\ UNCHANGED <<selectedFiles, chatMessages>>
  /\ UNCHANGED <<summary, currentQuestion, comparisonResult, comparing, changes>>
  /\ UNCHANGED <<now, uploadsDir, dashboards>>

\* handleSummarize from the settled fetch on, lines 110-123, then the rest of
\* handleUploadPDFs, lines 76-85
SummarizeSettled(id) ==
  /\ id \in DOMAIN reqs
  /\ LET r == reqs[id]
     IN /\ r.origin = "summarize" /\ Settled(r)
        /\ IF r.pc = "failed" \/ ~ResponseOk(r)
           THEN /\ error' = ErrorMessage(r, <<"Failed to summarize PDF(s)">>)
                /\ UNCHANGED summary
           ELSE /\ summary' = Field(r.resp.body, "answer")
                /\ UNCHANGED error
        /\ chatMessages' = <<Greeting(r.ctx.data)>>
        /\ loading' = FALSE
        /\ selectedFiles' = <<>>
        /\ Close(id)
  /\ UNCHANGED <<allPdfData, currentQuestion, comparisonResult, comparing, changes>>
  /\ UNCHANGED <<now, uploadsDir, dashboards>>

\* an updater that would put the message in the place of the log
ReplaceMessages(prevMessages, message) == <<message>>

\* an updater that would put the message in front of the log
PrependMessage(prevMessages, message) == <<message>> \o prevMessages

\* (prevMessages) => [...prevMessages, message], lines 137, 165 and 171
AddMessage(prevMessages, message) == Append(prevMessages, message)

\* handleAskQuestion(question) up to the await of fetch, lines 127-154, called
\* with the text typed into the question input, which is disabled by line 405
HandleAskQuestion(question) ==
  /\ ~(Len(allPdfData) = 0 \/ loading)
  /\ IF Len(allPdfData) = 0 \/ ~Truthy(Trim(question))
     THEN /\ error' = <<"Please type a question and ensure PDF(s) are uploaded.">>
          /\ UNCHANGED <<loading, chatMessages, currentQuestion, reqs>>
     ELSE /\ NextId <= MaxReq
          /\ loading' = TRUE
          /\ error' = <<>>
          /\ chatMessages' = AddMessage(chatMessages, [sender |-> "user", text |-> question])
          /\ currentQuestion' = <<>>
          /\ Send(NewReq("/ask", "ask",
               [question |-> question, pdfText |-> CombinedText(allPdfData)],
               [allPdfData |-> allPdfData]))
  /\ UNCHANGED <<selectedFiles, allPdfData, summary, comparisonResult, comparing, changes>>
  /\ UNCHANGED <<now, uploadsDir, dashboards>>

\* handleAskQuestion from the settled fetch on, lines 156-173
AskSettled(id) ==
  /\ id \in DOMAIN reqs
  /\ LET r == reqs[id]
         message == ErrorMessage(r, <<"Failed to get answer from AI">>)
     IN /\ r.origin = "ask" /\ Settled(r)
        /\ IF r.pc = "failed" \/ ~ResponseOk(r)
           THEN /\ error' = message
                /\ chatMessages' =
                     AddMessage(chatMessages, [sender |-> "bot", text |-> <<"Error: ">> \o message])
           ELSE /\ chatMessages' =
                     AddMessage(chatMessages, [sender |-> "bot", text |-> Field(r.resp.body, "answer")])
                /\ UNCHANGED error
        /\ loading' = FALSE
        /\ Close(id)
  /\ UNCHANGED <<selectedFiles, allPdfData, summary, currentQuestion, comparisonResult, comparing, changes>>
  /\ UNCHANGED <<now, uploadsDir, dashboards>>

\* a section numbered from zero
DocumentSectionFromZero(pdf, index) ==
  <<"--- Document ">> \o NumStr(index) \o <<": ">> \o TemplateStr(Field(pdf, "filename"))
    \o <<" ---", "\n">> \o TemplateStr(Field(pdf, "text"))

\* one section of the comparison prompt, line 246
DocumentSection(pdf, index) ==
  <<"--- Document ">> \o NumStr(index + 1) \o <<": ">> \o TemplateStr(Field(pdf, "filename"))
    \o <<" ---", "\n">> \o TemplateStr(Field(pdf, "text"))

\* comparisonPrompt, lines 244-246
ComparisonPrompt(pdfs) ==
  <<"Compare the following documents and highlight key similarities and differences.",
    "\n", " ", " ", " ", " ", "\n", " ", " ", " ", " ">>
    \o Join([i \in 1..Len(pdfs) |-> DocumentSection(pdfs[i], i - 1)], <<"\n", "\n">>)

\* allPdfData.length < 2, line 234
CompareRejected(pdfs) == Len(pdfs) < 2

\* handleComparePDFs up to the await of fetch, lines 233-257; the button that
\* calls it is disabled by line 339
HandleComparePDFs ==
  /\ ~(comparing \/ Len(allPdfData) < 2)
  /\ IF CompareRejected(allPdfData)
     THEN /\ error' = <<"Please upload at least two PDFs to compare.">>
          /\ UNCHANGED <<comparing, comparisonResult, reqs>>
     ELSE /\ NextId <= MaxReq
          /\ comparing' = TRUE
          /\ error' = <<>>
          /\ comparisonResult' = <<>>
          /\ Send(NewReq("/compare", "compare", [prompt |-> ComparisonPrompt(allPdfData)],
               [allPdfData |-> allPdfData]))
  /\ UNCHANGED <<selectedFiles, allPdfData, summary, loading, chatMessages, currentQuestion, changes>>
  /\ UNCHANGED <<now, uploadsDir, dashboards>>

\* handleComparePDFs from the settled fetch on, lines 259-271
CompareSettled(id) ==
  /\ id \in DOMAIN reqs
  /\ LET r == reqs[id]
     IN /\ r.origin = "compare" /\ Settled(r)
        /\ IF r.pc = "failed" \/ ~ResponseOk(r)
           THEN /\ error' = ErrorMessage(r, <<"Failed to get comparison from AI">>)
                /\ UNCHANGED comparisonResult
           ELSE /\ comparisonResult' = Field(r.resp.body, "answer")
                /\ UNCHANGED error
        /\ comparing' = FALSE
        /\ Close(id)
  /\ UNCHANGED <<selectedFiles, allPdfData, summary, loading, chatMessages, currentQuestion, changes>>
  /\ UNCHANGED <<now, uploadsDir, dashboards>>

(***************************************************************************)
(* Requests posted straight to the server.                                 *)
(***************************************************************************)
RECURSIVE SeqsUpTo(_, _)
SeqsUpTo(S, n) ==
  IF n = 0 THEN {<<>>}
  ELSE LET shorter == SeqsUpTo(S, n - 1)
       IN shorter \cup {Append(s, x) : s \in {t \in shorter : Len(t) = n - 1}, x \in S}

Batches == SeqsUpTo({FileA, FileB}, MaxBatch) \cup {<<FileC>>, <<FileA, FileC>>}

PostUpload(pdfs) ==
  /\ NextId <= MaxUploads
  /\ Send(NewReq("/upload", "direct", [pdfs |-> pdfs], EmptyObject))
  /\ UNCHANGED <<now, uploadsDir, dashboards>>
  /\ UNCHANGED clientVars

AskBodies ==
  << [question |-> <<"q">>, pdfText |-> <<"x">>],
     [question |-> <<>>, pdfText |-> <<"x">>],
     [question |-> <<"q">>, pdfText |-> <<>>],
     [pdfText |-> <<"x">>],
     [question |-> <<"q">>] >>

PostAsk(body) ==
  /\ NextId <= MaxPosts
  /\ Send(NewReq("/ask", "direct", body, EmptyObject))
  /\ UNCHANGED <<now, uploadsDir, dashboards>>
  /\ UNCHANGED clientVars

CompareBodies == << [prompt |-> <<"p">>], [prompt |-> <<>>], EmptyObject >>

PostCompareHtml(body) ==
  /\ NextId <= MaxPosts
  /\ Send(NewReq("/compare-html", "direct", body, EmptyObject))
  /\ UNCHANGED <<now, uploadsDir, dashboards>>
  /\ UNCHANGED clientVars

InitServer ==
  /\ now = 1
  /\ reqs = EmptyObject
  /\ uploadsDir = EmptyObject
  /\ dashboards = EmptyObject

InitClient ==
  /\ selectedFiles = <<>>
  /\ allPdfData = <<>>
  /\ summary = <<>>
  /\ loading = FALSE
  /\ error = <<>>
  /\ chatMessages = <<>>
  /\ currentQuestion = <<>>
  /\ comparisonResult = <<>>
  /\ comparing = FALSE
  /\ changes = 0

Init == InitServer /\ InitClient

(***************************************************************************)
(* The upload endpoint under requests from any HTTP client.                *)
(***************************************************************************)
NextUpload ==
  \/ Tick
  \/ \E pdfs \in Batches : PostUpload(pdfs)
  \/ \E id \in DOMAIN reqs : UploadStoreFile(id)
  \/ \E id \in DOMAIN reqs, m \in BOOLEAN : UploadError(id, m)
  \/ \E id \in DOMAIN reqs : UploadNoFiles(id)
  \/ \E id \in DOMAIN reqs : UploadRespond(id)

SpecUpload == Init /\ [][NextUpload]_vars

(***************************************************************************)
(* The two endpoints that call the language model, under requests from any *)
(* HTTP client.                                                            *)
(***************************************************************************)
NextAnswer ==
  \/ Tick
  \/ \E k \in 1..Len(AskBodies) : PostAsk(AskBodies[k])
  \/ \E k \in 1..Len(CompareBodies) : PostCompareHtml(CompareBodies[k])
  \/ \E id \in DOMAIN reqs : AskReceive(id)
  \/ \E id \in DOMAIN reqs, k \in 1..Len(LlmReplies) : AskReply(id, LlmReplies[k])
  \/ \E id \in DOMAIN reqs : CompareHtmlReceive(id)
  \/ \E id \in DOMAIN reqs, k \in 1..Len(LlmReplies) : CompareHtmlReply(id, LlmReplies[k])
  \/ \E id \in DOMAIN reqs, ok \in BOOLEAN : CompareHtmlMkdir(id, ok)
  \/ \E id \in DOMAIN reqs, ok \in BOOLEAN : CompareHtmlWrite(id, ok)

SpecAnswer == Init /\ [][NextAnswer]_vars

(***************************************************************************)
(* The client against the server.                                          *)
(***************************************************************************)
\* files of the largest selection made at once
MaxFiles == 11

\* a selection of more files than the upload takes
Oversize == [i \in 1..MaxFiles |-> FileA]

\* one file picked at a time, or many at once
Selections == {<<f>> : f \in Files} \cup {Oversize}

Questions == {<<>>, <<" ">>, <<"q">>}

Next ==
  \/ Tick
  \/ \E newFiles \in Selections : HandleFileChange(newFiles)
  \/ HandleUploadPDFs
  \/ \E q \in Questions : HandleAskQuestion(q)
  \/ HandleComparePDFs
  \/ \E id \in DOMAIN reqs : NetworkError(id)
  \/ \E id \in DOMAIN reqs : UploadStoreFile(id)
  \/ \E id \in DOMAIN reqs, m \in BOOLEAN : UploadError(id, m)
  \/ \E id \in DOMAIN reqs : UploadRespond(id)
  \/ \E id \in DOMAIN reqs : AskReceive(id)
  \/ \E id \in DOMAIN reqs, k \in 1..Len(LlmReplies) : AskReply(id, LlmReplies[k])
  \/ \E id \in DOMAIN reqs : CompareDeprecated(id)
  \/ \E id \in DOMAIN reqs : UploadSettled(id)
  \/ \E id \in DOMAIN reqs : SummarizeSettled(id)
  \/ \E id \in DOMAIN reqs : AskSettled(id)
  \/ \E id \in DOMAIN reqs : CompareSettled(id)

Spec == Init /\ [][Next]_vars

(***************************************************************************)
(* The comparison postprocessor under replies of any text: one request to  *)
(* /compare-html, answered by the model with a text over ReplyAlphabet.    *)
(***************************************************************************)
\* longest reply text that is enumerated
MaxText == 4

ReplyAlphabet == {"*", "\n", " ", "-", "1", ".", "A", "Similarities:", "Differences:", BR}

\* 'Similarities:\n- A\nDifferences:\n- B'
HeadedLists ==
  <<"Similarities:", "\n", "-", " ", "A", "\n", "Differences:", "\n", "-", " ", "B">>

\* longer replies: headed lists, indented items, items without a text
SampleReplies ==
  { HeadedLists,
    <<"A", "\n", " ", "-", " ", "A">>,
    <<"A", "\n", " ", "1", ".", " ", "A">>,
    <<"A", "\n", "-", " ", "\n", "A">>,
    <<"-", " ", "A", "\n", "1", "1", ".", " ", "A", "A", "\n", "A">> }

ReplyTexts == SeqsUpTo(ReplyAlphabet, MaxText) \cup SampleReplies

NextPost ==
  \/ reqs = EmptyObject /\ PostCompareHtml(CompareBodies[1])
  \/ \E id \in DOMAIN reqs : CompareHtmlReceive(id)
  \/ \E id \in {i \in DOMAIN reqs : reqs[i].pc = "llm"}, text \in ReplyTexts :
       CompareHtmlReply(id, [ok |-> TRUE, data |-> Payload(text)])

SpecPost == Init /\ [][NextPost]_vars

(***************************************************************************)
(* Properties of POST /upload.                                             *)
(***************************************************************************)
TextSet(pdf) == Field(pdf, "text") # Undefined
ErrorSet(pdf) == Field(pdf, "error") # Undefined

\* an upload whose files were all stored and whose handler has answered
UploadHandled(r) == r.endpoint = "/upload" /\ Responded(r) /\ Len(r.files) > 0

\* what the response of an upload carries as the list of records
UploadRecords(r) == IF ResponseOk(r) THEN r.resp.body ELSE r.resp.body.details

\* C1: for every batch the upload handler has processed, the list of records
\* it built and sent has exactly one record per input file, in input order,
\* and every record has exactly one of text and error set.
C1_OneRecordPerFile ==
  \A id \in DOMAIN reqs :
    LET r == reqs[id]
    IN UploadHandled(r) =>
         /\ Len(r.processedPdfs) = Len(r.body.pdfs)
         /\ UploadRecords(r) = r.processedPdfs
         /\ \A i \in 1..Len(r.processedPdfs) :
              /\ r.processedPdfs[i].filename = r.body.pdfs[i].name
              /\ TextSet(r.processedPdfs[i]) # ErrorSet(r.processedPdfs[i])

\* a batch of two files, one extracted and one failed, has been answered
C1_MixedBatchAnswered ==
  \E id \in DOMAIN reqs :
    /\ UploadHandled(reqs[id])
    /\ Len(reqs[id].processedPdfs) = 2
    /\ \E i, j \in 1..2 : /\ TextSet(reqs[id].processedPdfs[i])
                          /\ ErrorSet(reqs[id].processedPdfs[j])

\* the files multer has stored and not removed, as <<request, position>>
StoredFiles == {p \in (DOMAIN reqs) \X (1..UploadLimit) : p[2] <= Len(reqs[p[1]].files)}

\* C8: no two uploaded files, of one batch or of different batches, are ever
\* stored under the same savedname.
C8_UniqueSavedName ==
  \A p, q \in StoredFiles :
    p # q => reqs[p[1]].files[p[2]].filename # reqs[q[1]].files[q[2]].filename

(***************************************************************************)
(* Properties of POST /ask and POST /compare-html.                         *)
(***************************************************************************)
\* a /compare-html request whose fs.writeFile succeeded
ArtifactWritten(r) == r.endpoint = "/compare-html" /\ Responded(r) /\ ResponseOk(r)

\* C7: no two requests to /compare-html ever write the same artifact file,
\* whatever the interleaving and the clock readings of their writes.
C7_DistinctArtifacts ==
  \A i, j \in DOMAIN reqs :
    (i # j /\ ArtifactWritten(reqs[i]) /\ ArtifactWritten(reqs[j])) =>
      reqs[i].uniqueFileName # reqs[j].uniqueFileName

\* the page /compare-html builds when the payload has no first-candidate text
FallbackPage == HtmlContent(Postprocess(ComparisonTextOf(EmptyObject)))

\* C9: a successful reply of the model endpoint without a first-candidate
\* text never ends in a success response: /ask sends no 200 without an answer
\* and /compare-html neither writes an artifact nor sends a reference for it.
C9_MalformedReplyIsAnError ==
  /\ \A id \in DOMAIN reqs :
       LET r == reqs[id]
       IN /\ (r.endpoint = "/ask" /\ Responded(r) /\ ResponseOk(r)) =>
               Field(r.resp.body, "answer") # Undefined
          /\ ArtifactWritten(r) =>
               HtmlContent(r.comparisonText) # FallbackPage
  /\ \A n \in DOMAIN dashboards : dashboards[n].html # FallbackPage

\* C10: a response of /compare-html carries the reference /dashboards/<name>
\* only when the write of that file has succeeded; a request that failed at
\* the model call, at fs.mkdir or at fs.writeFile is answered by an error
\* without a reference, and no response carries the page itself.
C10_ReferenceOnlyAfterWrite ==
  \A id \in DOMAIN reqs :
    LET r == reqs[id]
    IN (r.endpoint = "/compare-html" /\ Responded(r)) =>
         IF ResponseOk(r)
         THEN /\ r.resp.body = [comparisonUrl |-> <<"/dashboards/">> \o r.uniqueFileName]
              /\ r.uniqueFileName \in DOMAIN dashboards
              /\ \E w \in DOMAIN reqs :
                   /\ dashboards[r.uniqueFileName].by = w
                   /\ reqs[w].uniqueFileName = r.uniqueFileName
         ELSE /\ r.resp.status \in {400, 500}
              /\ DOMAIN r.resp.body = {"error"}

\* one request got its reference and another one was refused after the
\* model had replied (fs.mkdir or fs.writeFile failed)
C10_WrittenAndFailed ==
  \E i, j \in DOMAIN reqs :
    /\ ArtifactWritten(reqs[i])
    /\ reqs[j].endpoint = "/compare-html" /\ Responded(reqs[j])
    /\ reqs[j].resp.status = 500 /\ reqs[j].comparisonText # <<>>

(***************************************************************************)
(* Properties of the client against the server.                            *)
(***************************************************************************)
AllFailedMessage == <<"All PDFs failed to process.">>

\* the corpora the client holds or has built a request from
Corpora ==
  {allPdfData}
    \cup {reqs[id].ctx.data : id \in {i \in DOMAIN reqs : "data" \in DOMAIN reqs[i].ctx}}
    \cup {reqs[id].ctx.allPdfData :
            id \in {i \in DOMAIN reqs : "allPdfData" \in DOMAIN reqs[i].ctx}}

\* C2: a batch whose files all failed extraction is answered by /upload with
\* the error status 500, the batch-level message and the per-file records,
\* and the client never takes such a batch as its corpus: it holds no corpus
\* while it shows that failure, and no summarize, ask or compare request is
\* ever built from a list of failed records only.
C2_FailedBatchNeverUsed ==
  /\ \A id \in DOMAIN reqs :
       LET r == reqs[id]
       IN (UploadHandled(r) /\ AllFailed(r.processedPdfs)) =>
            /\ r.resp.status = 500
            /\ r.resp.body = [error |-> AllFailedMessage, details |-> r.processedPdfs]
  /\ error = AllFailedMessage => allPdfData = <<>>
  /\ \A pdfs \in Corpora : pdfs = <<>> \/ ~AllFailed(pdfs)

\* the client shows the batch-level failure of an upload
C2_BatchFailureShown == error = AllFailedMessage /\ ~loading

\* the texts of the records whose extraction succeeded, in corpus order
SuccessfulTexts(pdfs) == Texts(SelectSeq(pdfs, TextSet))

\* the summarize and ask requests in flight, with the corpus they were built from
CorpusOf(r) == IF r.origin = "summarize" THEN r.ctx.data ELSE r.ctx.allPdfData

\* C3: the combined text of every summarize and ask request is exactly the
\* successful texts of its corpus joined by the separator, with nothing
\* contributed by a failed record.
C3_OnlySuccessfulTexts ==
  \A id \in DOMAIN reqs :
    LET r == reqs[id]
    IN (r.origin \in {"summarize", "ask"} /\ r.pc # "closed") =>
         r.body.pdfText = Join(SuccessfulTexts(CorpusOf(r)), Separator)

\* the number of records with an extracted text
Usable(pdfs) == Cardinality({i \in 1..Len(pdfs) : TextSet(pdfs[i])})

\* C4: no comparison request is ever built or sent from a corpus with fewer
\* than 2 successfully extracted records.
C4_CompareNeedsTwoUsable ==
  \A id \in DOMAIN reqs :
    (reqs[id].origin = "compare" /\ reqs[id].pc # "closed") =>
      Usable(reqs[id].ctx.allPdfData) >= 2

\* some record of the corpus has a non-empty extracted text
HasExtractedText(pdfs) == \E i \in 1..Len(pdfs) : Truthy(Field(pdfs[i], "text"))

\* C5: no question reaches the language-model endpoint with an empty or
\* absent question or pdfText, or from a corpus without any extracted text.
C5_NoCallWithoutInput ==
  \A id \in DOMAIN reqs :
    LET r == reqs[id]
    IN (r.endpoint = "/ask" /\ r.llm # <<>>) =>
         /\ Truthy(Field(r.body, "question")) /\ Truthy(Field(r.body, "pdfText"))
         /\ r.origin = "ask" => HasExtractedText(r.ctx.allPdfData)

\* C6: the chat log is append-only: every step leaves chatMessages unchanged
\* or extends it at the end.
C6_AppendOnly == [][IsPrefix(chatMessages, chatMessages')]_vars

\* the step is a file selection, which empties the log
SelectionStep == \E newFiles \in Selections : HandleFileChange(newFiles)

\* the step ends an upload that succeeded, which sets the log to the greeting
GreetingStep ==
  \E id \in DOMAIN reqs :
    \/ /\ UploadSettled(id) /\ Responded(reqs[id]) /\ ResponseOk(reqs[id])
       /\ chatMessages' = <<Greeting(reqs[id].resp.body)>>
    \/ /\ SummarizeSettled(id)
       /\ chatMessages' = <<Greeting(reqs[id].ctx.data)>>

\* C6: every step leaves chatMessages unchanged or appends at its end, except
\* that a file selection empties the log and the end of a successful upload
\* replaces it by the single greeting message.
C6_AppendOnlyBetweenResets ==
  [][\/ IsPrefix(chatMessages, chatMessages')
     \/ SelectionStep /\ chatMessages' = <<>>
     \/ GreetingStep]_vars

\* the greeting, a question and its answer are in the log
C6_Conversation ==
  /\ Len(chatMessages) = 3
  /\ chatMessages[1].sender = "bot" /\ chatMessages[2].sender = "user"
  /\ chatMessages[3].sender = "bot"

(***************************************************************************)
(* Properties of the comparison postprocessor.                             *)
(***************************************************************************)
\* a /compare-html request whose fragment has been built
FragmentBuilt(r) == r.endpoint = "/compare-html" /\ r.response # NoReply /\ r.response.ok

\* the text the fragment of a request was built from
RawText(r) == ComparisonTextOf(r.response.data)

Tokens(s) == {s[i] : i \in 1..Len(s)}

\* the four stages of the pipeline
HeadersWrapped(s) ==
  WrapHeader(WrapHeader(s, "Similarities:", SimilaritiesOpen), "Differences:", DifferencesOpen)
ListsRewritten(s) ==
  FirstLineNumber(FirstLineBullet(NumbersAfterBr(BulletsAfterBr(s, 1), 1)))

\* C11: the fragment built from any reply holds no `*`, and it is what
\* stripping the asterisks, then converting the line breaks, then wrapping
\* the headers, then rewriting the list items gives, in that order.
C11_NoAsteriskFixedOrder ==
  \A id \in DOMAIN reqs :
    LET r == reqs[id]
    IN FragmentBuilt(r) =>
         /\ "*" \notin Tokens(r.comparisonText)
         /\ r.comparisonText =
              ListsRewritten(HeadersWrapped(NewlinesToBr(StripAsterisks(RawText(r)))))

\* a reply with an asterisk inside a list marker has been turned into a
\* bullet item
C11_AsteriskInMarker ==
  \E id \in DOMAIN reqs :
    /\ FragmentBuilt(reqs[id])
    /\ RawText(reqs[id]) = <<"-", "*", " ", "A">>
    /\ reqs[id].comparisonText = <<BulletSpan, "A", SpanClose>>

\* the positions of s at which the sequence sub starts
Occurrences(s, sub) ==
  {i \in 1..(Len(s) - Len(sub) + 1) : SubSeq(s, i, i + Len(sub) - 1) = sub}

\* a list line rewritten as bullet span plus text span
BulletItem(text) == <<BulletSpan>> \o text \o <<SpanClose>>

\* C12: the fragment built from 'Similarities:\n- A\nDifferences:\n- B' has
\* exactly one similarities heading, before the bullet item A, and exactly
\* one differences heading, before the bullet item B; both list lines are
\* bullet span plus text span and no other bullet item exists.
C12_HeadedListsFragment ==
  \A id \in DOMAIN reqs :
    LET r == reqs[id]
        f == r.comparisonText
        sim == Occurrences(f, <<SimilaritiesOpen, "Similarities:", H2Close>>)
        dif == Occurrences(f, <<DifferencesOpen, "Differences:", H2Close>>)
        a == Occurrences(f, BulletItem(<<"A">>))
        b == Occurrences(f, BulletItem(<<"B">>))
    IN (FragmentBuilt(r) /\ RawText(r) = HeadedLists) =>
         /\ Cardinality(Occurrences(f, <<SimilaritiesOpen>>)) = 1 /\ Cardinality(sim) = 1
         /\ Cardinality(Occurrences(f, <<DifferencesOpen>>)) = 1 /\ Cardinality(dif) = 1
         /\ Cardinality(a) = 1 /\ Cardinality(b) = 1
         /\ Cardinality(Occurrences(f, <<BulletSpan>>)) = 2
         /\ \A i \in sim, j \in a, k \in dif, l \in b : i < j /\ j < k /\ k < l
         /\ Tokens(f) \cap {"*", "-", "\n"} = {}

\* the fragment of the four-line reply has been built
C12_HeadedListsBuilt ==
  \E id \in DOMAIN reqs :
    /\ FragmentBuilt(reqs[id]) /\ RawText(reqs[id]) = HeadedLists
    /\ Len(reqs[id].comparisonText) = 15

\* the positions at which the lines of a reply start
LineStarts(t) == {1} \cup {i + 1 : i \in {k \in 1..Len(t) : t[k] = "\n"}}

\* '- ' at position j
HyphenSpaceAt(t, j) == j + 1 <= Len(t) /\ t[j] = "-" /\ t[j + 1] = " "

\* '<digits>. ' at position j
DigitsDotSpaceAt(t, j) ==
  LET d == SkipDigits(t, j)
  IN d > j /\ d + 1 <= Len(t) /\ t[d] = "." /\ t[d + 1] = " "

MarkerAt(t, j) == HyphenSpaceAt(t, j) \/ DigitsDotSpaceAt(t, j)

RECURSIVE SkipBlanks(_, _)
\* the position after the spaces and tabs from position j
SkipBlanks(t, j) == IF j <= Len(t) /\ t[j] \in {" ", "\t"} THEN SkipBlanks(t, j + 1) ELSE j

\* no asterisk, no header phrase, no line that starts with a list marker
CleanText(t) ==
  /\ Tokens(t) \cap {"*", "Similarities:", "Differences:"} = {}
  /\ \A p \in LineStarts(t) : ~MarkerAt(t, p)

StrictlyCleanText(t) ==
  /\ CleanText(t)
  /\ BR \notin Tokens(t)
  /\ \A p \in LineStarts(t) : ~MarkerAt(t, SkipBlanks(t, p))

RECURSIVE NextBreak(_, _)
\* the position of the first line break at or after position k, Len(t) + 1 if none
NextBreak(t, k) == IF k > Len(t) \/ t[k] = "\n" THEN k ELSE NextBreak(t, k + 1)

\* the rest of the line from position k, up to and not including its line break
Remainder(t, k) == SubSeq(t, k, NextBreak(t, k) - 1)

\* a reply of plain characters: nothing the other stages change
PlainText(t) == Tokens(t) \cap {"*", "Similarities:", "Differences:", BR} = {}

\* C20: every line of the reply that begins with '- ' or '<digits>. ', as
\* first line or after a line break, with or without leading whitespace, is
\* rewritten into a bullet/number span followed by a text span that holds
\* exactly the rest of the line, also when that rest is one character or empty.
C20_EveryListLineRewritten ==
  \A id \in DOMAIN reqs :
    LET r == reqs[id]
        t == RawText(r)
        f == r.comparisonText
    IN (FragmentBuilt(r) /\ PlainText(t)) =>
         \A p \in LineStarts(t) :
           LET j == SkipBlanks(t, p)
               d == SkipDigits(t, j)
           IN /\ HyphenSpaceAt(t, j) =>
                   Occurrences(f, BulletItem(Remainder(t, j + 2))) # {}
              /\ DigitsDotSpaceAt(t, j) =>
                   Occurrences(f, <<NumberToText>> \o Remainder(t, d + 2) \o <<SpanClose>>) # {}

(***************************************************************************)
(* Further properties of the client against the server.                    *)
(***************************************************************************)
\* a comparison request of handleComparePDFs that is still awaited
CompareInFlight(r) == r.origin = "compare" /\ r.pc # "closed"

\* the header of the n-th section of a comparison prompt
SectionHeader(pdfs, n) ==
  <<"--- Document ">> \o NumStr(n) \o <<": ">> \o pdfs[n].filename \o <<" ---", "\n">>

\* the header of the n-th section, followed by the text of a record that has one
LabeledSection(pdfs, n) ==
  SectionHeader(pdfs, n) \o (IF TextSet(pdfs[n]) THEN pdfs[n].text ELSE <<>>)

\* C14: the comparison prompt built from a corpus of N records holds exactly
\* N labeled sections; the n-th is headed 'Document n: <filename of the n-th
\* record>' and followed by that record's text, in corpus order.
C14_SectionsInCorpusOrder ==
  \A id \in DOMAIN reqs :
    LET r == reqs[id]
        pdfs == r.ctx.allPdfData
        prompt == r.body.prompt
        at(n) == Occurrences(prompt, LabeledSection(pdfs, n))
    IN CompareInFlight(r) =>
         /\ Len(pdfs) >= 2
         /\ Cardinality(Occurrences(prompt, <<"--- Document ">>)) = Len(pdfs)
         /\ \A n \in 1..Len(pdfs) : at(n) # {}
         /\ \A n \in 1..(Len(pdfs) - 1) :
              \E i \in at(n), j \in at(n + 1) : i + Len(LabeledSection(pdfs, n)) <= j

\* a comparison of two documents with different names and texts is awaited
C14_TwoDocumentsCompared ==
  \E id \in DOMAIN reqs :
    /\ CompareInFlight(reqs[id])
    /\ Len(reqs[id].ctx.allPdfData) = 2
    /\ reqs[id].ctx.allPdfData[1].filename = FileC.name
    /\ reqs[id].ctx.allPdfData[2].filename = FileA.name
    /\ TextSet(reqs[id].ctx.allPdfData[1]) /\ TextSet(reqs[id].ctx.allPdfData[2])

\* the texts the page shows: the error line and the chat messages
VisibleTexts == {error} \cup {chatMessages[k].text : k \in 1..Len(chatMessages)}

\* the extraction failure of a record is shown somewhere
FailureShown(pdf) == \E v \in VisibleTexts : Occurrences(v, pdf.error) # {}

\* a chat message lists the file of a record among the processed ones
ListedAsProcessed(pdf) ==
  \E v \in VisibleTexts :
    /\ v # <<>> /\ v[1] = "PDF(s) uploaded and processed: "
    /\ Occurrences(v, pdf.filename) # {}

\* C15: once an upload in which some files failed is over, the page shows
\* the failure of every failed file, and lists no failed file as processed.
C15_FailedInputsReported ==
  \A i \in 1..Len(allPdfData) :
    (ErrorSet(allPdfData[i]) /\ ~loading) =>
      FailureShown(allPdfData[i]) /\ ~ListedAsProcessed(allPdfData[i])

(***************************************************************************)
(* Properties of the calls to the language model.  They are stated for     *)
(* SpecCalls: the client's uploads and questions, next to requests that    *)
(* any HTTP client posts to /compare-html.                                 *)
(***************************************************************************)
NextCalls ==
  \/ Tick
  \/ HandleFileChange(<<FileA>>)
  \/ HandleUploadPDFs
  \/ \E q \in Questions : HandleAskQuestion(q)
  \/ \E k \in 1..Len(CompareBodies) : PostCompareHtml(CompareBodies[k])
  \/ \E id \in DOMAIN reqs : NetworkError(id)
  \/ \E id \in DOMAIN reqs : UploadStoreFile(id)
  \/ \E id \in DOMAIN reqs, m \in BOOLEAN : UploadError(id, m)
  \/ \E id \in DOMAIN reqs : UploadRespond(id)
  \/ \E id \in DOMAIN reqs : AskReceive(id)
  \/ \E id \in DOMAIN reqs, k \in 1..Len(LlmReplies) : AskReply(id, LlmReplies[k])
  \/ \E id \in DOMAIN reqs : CompareHtmlReceive(id)
  \/ \E id \in DOMAIN reqs, k \in 1..Len(LlmReplies) : CompareHtmlReply(id, LlmReplies[k])
  \/ \E id \in DOMAIN reqs, ok \in BOOLEAN : CompareHtmlMkdir(id, ok)
  \/ \E id \in DOMAIN reqs, ok \in BOOLEAN : CompareHtmlWrite(id, ok)
  \/ \E id \in DOMAIN reqs : UploadSettled(id)
  \/ \E id \in DOMAIN reqs : SummarizeSettled(id)
  \/ \E id \in DOMAIN reqs : AskSettled(id)

SpecCalls == Init /\ [][NextCalls]_vars

\* the request has passed the check of its inputs, lines 84 and 119
Validated(r) ==
  \/ r.endpoint = "/ask" /\ ~AskMissingInput(r.body)
  \/ r.endpoint = "/compare-html" /\ Truthy(Field(r.body, "prompt"))

\* axios.post of the request threw
TransportFailed(r) == r.response # NoReply /\ ~r.response.ok

\* the request was answered with an error
ErrorResponse(r) ==
  Responded(r) /\ r.resp.status = 500 /\ Truthy(Field(r.resp.body, "error"))

\* the calls a request has made: none before its inputs are checked or when
\* they are rejected, one from then on, and a failed call ends the request
CallsOf(r) ==
  /\ Len(r.llm) <= 1
  /\ (Validated(r) /\ r.pc \notin {"recv", "failed"}) => Len(r.llm) = 1
  /\ ~Validated(r) => r.llm = <<>>
  /\ TransportFailed(r) => ErrorResponse(r)

\* the client handler of a failed question shows the error and sends nothing
FailureSurfaced(id) ==
  LET r == reqs[id]
      shown == r.resp.body.error
  IN /\ error' = shown
     /\ r.origin = "ask" =>
          chatMessages' = Append(chatMessages, [sender |-> "bot", text |-> <<"Error: ">> \o shown])
     /\ DOMAIN reqs' = DOMAIN reqs
     /\ \A i \in DOMAIN reqs : i # id => reqs'[i] = reqs[i]

\* C16: a validated /ask or /compare-html request calls the model exactly
\* once and never again; when that call fails in transport the request ends
\* with an error response, and the client handler that awaits it shows the
\* error (a question also as a bot 'Error: ...' message) and sends no request.
C16_OneCallNoRetry ==
  [][ /\ \A id \in DOMAIN reqs' :
           reqs'[id].endpoint \in {"/ask", "/compare-html"} /\ reqs'[id].pc # "closed"
             => CallsOf(reqs'[id])
      /\ \A id \in DOMAIN reqs :
           (TransportFailed(reqs[id]) /\ (AskSettled(id) \/ SummarizeSettled(id)))
             => FailureSurfaced(id) ]_vars

\* a question whose model call failed has been shown as an error
C16_FailedQuestionShown ==
  /\ error = <<"Failed to get answer from Gemini">>
  /\ chatMessages # <<>>
  /\ chatMessages[Len(chatMessages)] =
       [sender |-> "bot", text |-> <<"Error: ", "Failed to get answer from Gemini">>]
  /\ \E id \in DOMAIN reqs : reqs[id].origin = "ask" /\ reqs[id].pc = "closed"

\* the batch of the request holds more than 10 files
OversizeBatch(r) == r.endpoint = "/upload" /\ r.pc # "closed" /\ Len(r.body.pdfs) > 10

\* the request was answered with an error and without any record
RejectedAsAWhole(r) ==
  /\ r.resp.status = 500
  /\ DOMAIN r.resp.body = {"error"}
  /\ Truthy(r.resp.body.error)

\* C17: an upload of more than 10 files never has a record made for any of
\* its files, is answered with an error, and the client handler that awaits
\* it leaves the corpus as it was.
C17_OversizeBatchRejected ==
  [][ /\ \A id \in DOMAIN reqs' :
           OversizeBatch(reqs'[id]) =>
             /\ reqs'[id].processedPdfs = <<>>
             /\ reqs'[id].pc \in {"recv", "failed", "done"}
             /\ Responded(reqs'[id]) => RejectedAsAWhole(reqs'[id])
      /\ \A id \in DOMAIN reqs :
           (OversizeBatch(reqs[id]) /\ UploadSettled(id)) =>
             /\ allPdfData' = allPdfData
             /\ Responded(reqs[id]) => error' = reqs[id].resp.body.error ]_vars

\* an upload of more than 10 files has been answered
C17_OversizeUploadAnswered ==
  \E id \in DOMAIN reqs :
    /\ reqs[id].origin = "upload" /\ Responded(reqs[id])
    /\ Len(reqs[id].body.pdfs) > 10
    /\ reqs[id].resp.status = 500
    /\ loading

\* the model answered the request with a first-candidate text
AnsweredWithText(r) ==
  /\ r.response # NoReply /\ r.response.ok
  /\ FirstCandidateText(r.response.data) # Undefined

\* C18: when the model answered a question with a text, the answer field of
\* the /ask response is that text, and handleAskQuestion appends one bot
\* message whose text is that text, token for token.
C18_AnswerVerbatim ==
  [][ \A id \in DOMAIN reqs :
        (AskSettled(id) /\ Responded(reqs[id]) /\ AnsweredWithText(reqs[id])) =>
          LET text == FirstCandidateText(reqs[id].response.data)
          IN /\ reqs[id].resp.body = [answer |-> text]
             /\ chatMessages' = Append(chatMessages, [sender |-> "bot", text |-> text]) ]_vars

\* the answer in Markdown is the last message of the log
C18_MarkdownAnswerLogged ==
  /\ Len(chatMessages) >= 2
  /\ chatMessages[Len(chatMessages) - 1].sender = "user"
  /\ chatMessages[Len(chatMessages)] = [sender |-> "bot", text |-> <<"*", "y", "\n">>]

\* C19: a comparison that the client asked for on a corpus of at least 2
\* records with a text, once answered, has called the model, and it has been
\* answered with an error only when the model call or the writing of the
\* page failed; otherwise with the URL of a page that was written.
C19_ComparisonDelivered ==
  \A id \in DOMAIN reqs :
    LET r == reqs[id]
    IN (r.origin = "compare" /\ Responded(r) /\ Usable(r.ctx.allPdfData) >= 2) =>
         /\ r.llm # <<>>
         /\ \/ TransportFailed(r)
            \/ r.resp.body = CompareFailed
            \/ /\ ResponseOk(r)
               /\ Truthy(Field(r.resp.body, "comparisonUrl"))
               /\ \E n \in DOMAIN dashboards : dashboards[n].by = id

(***************************************************************************)
(* Properties of the session: requests in flight against file selections.  *)
(***************************************************************************)
\* C21: the text a question request carries is made, when the question is
\* submitted, of the texts of all records of the corpus of that moment, in
\* order and joined by the separator (a record without a text adds an empty
\* text); from then on no step changes what the request carries.
C21_CorpusSnapshotPerQuestion ==
  [][ \A id \in DOMAIN reqs' :
        (reqs'[id].origin = "ask" /\ reqs'[id].pc # "closed") =>
          IF id \in DOMAIN reqs
          THEN reqs'[id].body = reqs[id].body
          ELSE LET part(i) == IF TextSet(allPdfData[i]) THEN allPdfData[i].text ELSE <<>>
                   glue(i) == IF i = 1 THEN <<>> ELSE Separator
                   RECURSIVE upTo(_)
                   upTo(n) == IF n = 0 THEN <<>> ELSE upTo(n - 1) \o glue(n) \o part(n)
               IN /\ Len(allPdfData) > 0
                  /\ reqs'[id].body.pdfText = upTo(Len(allPdfData)) ]_vars

\* a question is in flight with the text of the corpus it was asked about
\* while a file selection has emptied the corpus
C21_SelectionDuringQuestion ==
  \E id \in DOMAIN reqs :
    /\ reqs[id].origin = "ask" /\ reqs[id].pc \in {"recv", "llm", "done"}
    /\ reqs[id].body.pdfText = <<"x">>
    /\ allPdfData = <<>>
    /\ selectedFiles # <<>>

\* C22: when the reply to a question arrives, its bot message is put at the
\* end of the chat log of that moment, whatever happened to the log since the
\* question was asked: the log of that moment is kept as it is in front of it.
C22_ReplyAppendedToCurrentLog ==
  [][ \A id \in DOMAIN reqs :
        AskSettled(id) =>
          /\ Len(chatMessages') = Len(chatMessages) + 1
          /\ SubSeq(chatMessages', 1, Len(chatMessages)) = chatMessages
          /\ chatMessages'[Len(chatMessages')].sender = "bot"
          /\ (Responded(reqs[id]) /\ ResponseOk(reqs[id])) =>
               chatMessages'[Len(chatMessages')].text = Field(reqs[id].resp.body, "answer") ]_vars

\* the answer to a question arrived after a file selection had emptied the
\* log: it is the only message, without the greeting and the question
C22_StaleAnswerLogged ==
  /\ chatMessages = <<[sender |-> "bot", text |-> <<"*", "y", "\n">>]>>
  /\ allPdfData = <<>> /\ selectedFiles # <<>>
  /\ \E id \in DOMAIN reqs : reqs[id].origin = "ask" /\ reqs[id].pc = "closed"

\* C23 as stated: when handleUploadPDFs comes to its end without an error,
\* allPdfData is the list of records returned for that upload.
C23_CorpusIsUploadAtCompletion ==
  [][ \A id \in DOMAIN reqs :
        /\ SummarizeSettled(id) => allPdfData' = reqs[id].ctx.data
        /\ (UploadSettled(id) /\ Responded(reqs[id]) /\ ResponseOk(reqs[id])) =>
             allPdfData' = reqs[id].resp.body ]_vars

\* C23: the corpus is only ever replaced as a whole.  When the response of a
\* successful upload arrives, allPdfData becomes exactly the list of records of
\* that response, one per file of that upload and in the order of its files;
\* the only other change of allPdfData is a file selection emptying it.
C23_CorpusReplacedWholesale ==
  [][ /\ \A id \in DOMAIN reqs :
           (UploadSettled(id) /\ Responded(reqs[id]) /\ ResponseOk(reqs[id])) =>
             /\ allPdfData' = reqs[id].resp.body
             /\ Len(allPdfData') = Len(reqs[id].body.pdfs)
             /\ \A i \in 1..Len(allPdfData') :
                  allPdfData'[i].filename = reqs[id].body.pdfs[i].name
      /\ allPdfData' # allPdfData =>
           \/ allPdfData' = <<>> /\ Len(selectedFiles') > Len(selectedFiles)
           \/ \E id \in DOMAIN reqs :
                UploadSettled(id) /\ Responded(reqs[id]) /\ ResponseOk(reqs[id]) ]_vars

\* a second upload has replaced the corpus of the first: the corpus holds
\* the record of c.pdf alone after a.pdf had been uploaded
C23_SecondUploadReplaced ==
  /\ Len(allPdfData) = 1 /\ allPdfData[1].filename = FileC.name
  /\ \E id \in DOMAIN reqs :
       /\ reqs[id].origin = "summarize" /\ reqs[id].pc = "closed"
  /\ \E id \in DOMAIN reqs :
       /\ reqs[id].origin = "upload" /\ reqs[id].pc = "closed"

\* C24: at most one upload, summary or question request of the client is
\* awaited at any time; loading is true while one is awaited and false when
\* none is, that is after every handler has come to its end.
C24_OneRequestWhileLoading ==
  LET awaited == {id \in DOMAIN reqs :
                    /\ reqs[id].origin \in {"upload", "summarize", "ask"}
                    /\ reqs[id].pc # "closed"}
  IN /\ Cardinality(awaited) <= 1
     /\ loading <=> awaited # {}

\* handlers have come to their end on an error path and on a success path:
\* a question failed in transport after a summary had been stored
C24_HandlersFinished ==
  /\ ~loading
  /\ summary = <<"*", "y", "\n">>
  /\ error = <<"Failed to fetch">>
  /\ \A id \in DOMAIN reqs : reqs[id].pc = "closed"
  /\ Cardinality(DOMAIN reqs) = 3

(***************************************************************************)
(* The client against the server when every awaited promise settles: the   *)
(* server handles a question it has received, the call to the model comes  *)
(* back (with a reply or an error), and the handler that awaits the fetch  *)
(* resumes.                                                                *)
(***************************************************************************)
SpecSettling ==
  /\ Spec
  /\ \A id \in 1..MaxReq :
       /\ WF_vars(AskReceive(id))
       /\ WF_vars(\E k \in 1..Len(LlmReplies) : AskReply(id, LlmReplies[k]))
       /\ WF_vars(AskSettled(id))

\* C25 as stated, for the chat log: every bot message that is not the
\* greeting of an upload comes right after a user message.
C25_EveryReplyAfterItsQuestion ==
  \A k \in 1..Len(chatMessages) :
    (chatMessages[k].sender = "bot" /\ chatMessages[k].text # Undefined
       /\ chatMessages[k].text # <<>>
       /\ chatMessages[k].text[1] # "PDF(s) uploaded and processed: ") =>
      k > 1 /\ chatMessages[k - 1].sender = "user"

\* C25: a question that passes validation puts its user message at the end
\* of the log and sends one request; when that request settles exactly one
\* bot message is put at the end of the log, right after that user message
\* unless a file selection has emptied the log in between; and every such
\* request does settle.
C25_OneReplyPerQuestion ==
  /\ [][ /\ \A id \in DOMAIN reqs' \ DOMAIN reqs :
              reqs'[id].origin = "ask" =>
                /\ chatMessages' =
                     Append(chatMessages, [sender |-> "user", text |-> reqs'[id].body.question])
                /\ Cardinality(DOMAIN reqs') = Cardinality(DOMAIN reqs) + 1
         /\ \A id \in DOMAIN reqs :
              AskSettled(id) =>
                /\ Len(chatMessages') = Len(chatMessages) + 1
                /\ chatMessages'[Len(chatMessages')].sender = "bot"
                /\ chatMessages # <<>> =>
                     chatMessages[Len(chatMessages)] =
                       [sender |-> "user", text |-> reqs[id].body.question]
         /\ \A id \in DOMAIN reqs :
              (reqs[id].origin = "ask" /\ reqs[id].pc = "closed") =>
                /\ reqs'[id] = reqs[id]
                /\ ~AskSettled(id) ]_vars
  /\ \A id \in 1..MaxReq :
       (id \in DOMAIN reqs /\ reqs[id].origin = "ask")
         ~> (id \in DOMAIN reqs /\ reqs[id].pc = "closed")

\* a question has been asked and answered in a log that was not emptied
C25_QuestionThenAnswer ==
  /\ Len(chatMessages) = 3
  /\ chatMessages[2] = [sender |-> "user", text |-> <<"q">>]
  /\ chatMessages[3].sender = "bot"
  /\ \E id \in DOMAIN reqs : reqs[id].origin = "ask" /\ reqs[id].pc = "closed"

====
